---- MODULE Spec2Model ----
(***************************************************************************)
(* A model of govuk-datascrubber: the snapshot resolver                    *)
(* (RdsSnapshotFinder) and the scrub workspace lifecycle                   *)
(* (ScrubWorkspaceInstance) of src/datascrubber/__init__.py, and the       *)
(* scrub task runner (Postgresql) of                                       *)
(* src/datascrubber/task_managers/postgresql.py.                           *)
(*                                                                         *)
(* Identifiers of database instances are tuples of text fragments, so      *)
(* that the formatted workspace identifier ("scrubber-<engine>-<hash>")    *)
(* is a value built from its parts. DNS names are tuples of labels, an     *)
(* absolute name ending in the empty root label. Python's None is the      *)
(* empty tuple for tuple-valued fields, the string "None" for text fields  *)
(* and a record of the same shape for dictionaries.                        *)
(***************************************************************************)
EXTENDS Integers, Sequences, FiniteSets, TLC

VARIABLES
    \* the provider, the DNS and the clock (the environment)
    dbSnapshots,      \* what describe_db_snapshots lists, in provider order
    dbInstances,      \* what describe_db_instances lists, in provider order
    dnsAnswer,        \* canonical name the DNS gives for the hostname
    createTimeType,   \* Python type of a SnapshotCreateTime value
    now,              \* time.time(), in seconds since the running public
                      \* call began: a wait compares it only with the
                      \* deadline it computed from it
    \* RdsSnapshotFinder
    ctor,             \* the arguments the finder was constructed with
    finder,           \* the finder's attributes
    firstReturn,      \* history: what the first call of each finder method
                      \* that returned has returned
    \* ScrubWorkspaceInstance
    ws,               \* the workspace's attributes; ws.phase tells whether
                      \* __init__ has run
    pc,               \* where the running workspace call stands
    max_end_time,     \* the deadline of the running wait
    events,           \* history: what the workspace has requested and what
                      \* its calls have come to so far, as a set
    keep,             \* delete_old_snapshots: number_to_keep
    listed,           \* delete_old_snapshots: response['DBSnapshots']
    toDelete,         \* delete_old_snapshots: snaps_to_delete not yet visited
    deleteRequests,   \* the delete_db_snapshot requests of the running or
                      \* last delete_old_snapshots, in order
    \* Postgresql
    pgDatabases,      \* the datname rows the server lists, in its order
    pg,               \* the task manager's attributes; pg.phase tells
                      \* whether __init__ has run
    \* the observer: the last public call, its outcome and its provider calls
    lastOp,
    lastResult,
    lastCalls,
    polls,            \* polls made by the running or last wait
    lastPoll          \* what the last poll returned or raised

vars == <<dbSnapshots, dbInstances, dnsAnswer, createTimeType, now, ctor,
          finder, firstReturn, ws, pc, max_end_time, events, keep, listed,
          toDelete, deleteRequests, pgDatabases, pg,
          lastOp, lastResult, lastCalls, polls, lastPoll>>

envVars == <<dbSnapshots, dbInstances, dnsAnswer, createTimeType>>
retentionVars == <<keep, listed, toDelete, deleteRequests>>
wsVars == <<ws, pc, max_end_time, events, retentionVars, polls, lastPoll>>
taskVars == <<pgDatabases, pg>>

-----------------------------------------------------------------------------
(* Bounds of the model *)

MaxSnapshots == 3      \* longest snapshot list the provider returns
MaxCreateTime == 2     \* creation times are 1..MaxCreateTime
MaxTimeout == 1        \* the workspace timeout is 0..MaxTimeout minutes
MaxDatabases == 3      \* most databases the server lists
MaxKeep == 2           \* number_to_keep is 0..MaxKeep

(* Program constants *)

PollSleepSeconds == 10
SecondsPerMinute == 60

-----------------------------------------------------------------------------
(* Values *)

NoneId == <<>>
NoneName == <<>>
NoneText == "None"

IdA == <<"prod-a">>
IdB == <<"prod-b">>
IdC == <<"prod-c">>

NoneInstance ==
    [id |-> NoneId, hasEndpoint |-> FALSE, address |-> NoneName,
     subnet |-> NoneText, groups |-> <<>>, status |-> NoneText]

NoneSnapshot ==
    [id |-> NoneText, inst |-> NoneId, hasTime |-> FALSE, time |-> 0,
     engine |-> NoneText]

\* dns.name.from_text('rds.amazonaws.com.')
rds_domain == <<"rds", "amazonaws", "com", "">>

NameA == <<"a", "rds", "amazonaws", "com", "">>
NameZ == <<"z", "rds", "amazonaws", "com", "">>
NameOutside == <<"a", "example", "com", "">>
NxDomain == <<>>

\* dns.name.Name.is_subdomain: the name ends with the labels of the domain
is_subdomain(name, domain) ==
    /\ Len(name) >= Len(domain)
    /\ SubSeq(name, Len(name) - Len(domain) + 1, Len(name)) = domain

\* cname.to_text().rstrip('.'): the text of an absolute name without the
\* trailing dot, i.e. its labels without the root label
to_text_rstrip(name) ==
    IF Len(name) > 0 /\ name[Len(name)] = ""
    THEN SubSeq(name, 1, Len(name) - 1)
    ELSE name

Group(id, status) == [id |-> id, status |-> status]

InstA ==
    [id |-> IdA, hasEndpoint |-> TRUE,
     address |-> <<"a", "rds", "amazonaws", "com">>, subnet |-> "subnet-a",
     groups |-> <<Group("sg-1", "active"), Group("sg-2", "removing")>>,
     status |-> "available"]
InstB ==
    [id |-> IdB, hasEndpoint |-> TRUE,
     address |-> <<"b", "rds", "amazonaws", "com">>, subnet |-> "subnet-b",
     groups |-> <<Group("sg-3", "active")>>, status |-> "available"]
\* an instance still being created has no Endpoint yet
InstC ==
    [id |-> IdC, hasEndpoint |-> FALSE, address |-> NoneName,
     subnet |-> "subnet-c", groups |-> <<>>, status |-> "creating"]

Snap(id, inst, hasTime, time) ==
    [id |-> id, inst |-> inst, hasTime |-> hasTime, time |-> time,
     engine |-> "postgres"]

Ret(r, val, calls) ==
    [r |-> r, ok |-> TRUE, val |-> val, err |-> "", calls |-> calls]
Raise(r, err, calls) ==
    [r |-> r, ok |-> FALSE, val |-> <<>>, err |-> err, calls |-> calls]

Raised(err) == [ok |-> FALSE, val |-> <<>>, err |-> err]
Returned(val) == [ok |-> TRUE, val |-> val, err |-> ""]
Outcome(res) == [ok |-> res.ok, val |-> res.val, err |-> res.err]
NoOutcome == [ok |-> TRUE, val |-> <<>>, err |-> ""]

\* What a provider call gave: a response with a status, or an error raised.
\* botocore's ClientError carries response['Error']['Code']; other
\* exceptions have no response attribute.
Status(status) ==
    [raised |-> FALSE, status |-> status, type |-> NoneText, code |-> NoneText]
Error(type, code) ==
    [raised |-> TRUE, status |-> NoneText, type |-> type, code |-> code]
NoPoll == Status(NoneText)

-----------------------------------------------------------------------------
(* Sorting, as list.sort(key=lambda x: x.get('SnapshotCreateTime', 0),     *)
(* reverse=True) does it                                                   *)

\* x.get('SnapshotCreateTime', 0)
SortKey(s) == IF s.hasTime THEN s.time ELSE 0

\* The sort compares keys with <. boto3 gives SnapshotCreateTime as a
\* datetime, and comparing a datetime with the default 0 raises TypeError;
\* a provider double that gives numbers compares them with 0.
SortRaises(list) ==
    /\ createTimeType = "datetime"
    /\ \E i, j \in DOMAIN list : list[i].hasTime /\ ~list[j].hasTime

\* x put into a list sorted by descending key, after the elements whose key
\* is not smaller: the sort is stable, also with reverse=True
RECURSIVE InsertDesc(_, _)
InsertDesc(x, sorted) ==
    IF sorted = <<>> THEN <<x>>
    ELSE IF SortKey(Head(sorted)) >= SortKey(x)
         THEN <<Head(sorted)>> \o InsertDesc(x, Tail(sorted))
         ELSE <<x>> \o sorted

RECURSIVE SortDescFrom(_, _)
SortDescFrom(list, sorted) ==
    IF list = <<>> THEN sorted
    ELSE SortDescFrom(Tail(list), InsertDesc(Head(list), sorted))

SortDesc(list) == SortDescFrom(list, <<>>)

-----------------------------------------------------------------------------
(* RdsSnapshotFinder. Each method is an operator from the finder's         *)
(* attributes to the attributes after the call, the value returned or the  *)
(* error raised, and the provider and DNS calls made.                      *)

FinderInit(hostname, source_instance_identifier, snapshot_identifier) ==
    [hostname |-> hostname,
     source_instance_identifier |-> source_instance_identifier,
     snapshot_identifier |-> snapshot_identifier,
     rds_endpoint_address |-> NoneName,
     source_instance |-> NoneInstance,
     snapshot |-> NoneSnapshot]

get_hostname(r) ==
    IF r.hostname = NoneText
    THEN Raise(r, "No hostname provided", <<>>)
    ELSE Ret(r, r.hostname, <<>>)

\* get_rds_endpoint_address once get_hostname has returned h
ResolveEndpoint(r, h) ==
    IF ~h.ok THEN h
    ELSE IF dnsAnswer = NxDomain
    THEN Raise(r, "NXDOMAIN", <<"dns.query">>)
    ELSE IF ~is_subdomain(dnsAnswer, rds_domain)
    THEN Raise(r, "not a subdomain of RDS domain", <<"dns.query">>)
    ELSE Ret([r EXCEPT !.rds_endpoint_address = to_text_rstrip(dnsAnswer)],
             to_text_rstrip(dnsAnswer), <<"dns.query">>)

get_rds_endpoint_address(r) ==
    IF r.rds_endpoint_address # NoneName
    THEN Ret(r, r.rds_endpoint_address, <<>>)
    ELSE ResolveEndpoint(r, get_hostname(r))

\* the raise that follows a loop without a match; its message calls
\* get_rds_endpoint_address, which returned or raised e
RaiseNoMatch(e, calls) ==
    Raise(e.r, IF e.ok THEN "Couldn't find an RDS instance" ELSE e.err,
          calls \o e.calls)

\* the for loop of get_source_instance over rds_instances['DBInstances'],
\* from position i on
RECURSIVE MatchEndpoint(_, _, _)
\* a loop that takes the first instance with an endpoint, whatever its
\* address
MatchAnyEndpointAt(r, i, calls, e) ==
    IF ~e.ok THEN Raise(e.r, e.err, calls \o e.calls)
    ELSE Ret([e.r EXCEPT !.source_instance = dbInstances[i],
                         !.source_instance_identifier = dbInstances[i].id],
             dbInstances[i], calls \o e.calls)

MatchEndpointAt(r, i, calls, e) ==
    IF ~e.ok THEN Raise(e.r, e.err, calls \o e.calls)
    ELSE IF dbInstances[i].address = e.val
    THEN Ret([e.r EXCEPT !.source_instance = dbInstances[i],
                         !.source_instance_identifier = dbInstances[i].id],
             dbInstances[i], calls \o e.calls)
    ELSE MatchEndpoint(e.r, i + 1, calls \o e.calls)

MatchEndpoint(r, i, calls) ==
    IF i > Len(dbInstances)
    THEN RaiseNoMatch(get_rds_endpoint_address(r), calls)
    ELSE IF ~dbInstances[i].hasEndpoint
    THEN MatchEndpoint(r, i + 1, calls)
    ELSE MatchEndpointAt(r, i, calls, get_rds_endpoint_address(r))

\* describe_db_instances(DBInstanceIdentifier=id)
InstancesById(id) == SelectSeq(dbInstances, LAMBDA i : i.id = id)

\* the else branch of get_source_instance: the lookup by identifier
LookupInstance(r, found) ==
    IF found = <<>>
    THEN Raise(r, "DBInstanceNotFound",
               <<"describe_db_instances(DBInstanceIdentifier)">>)
    ELSE Ret([r EXCEPT !.source_instance = found[1]], found[1],
             <<"describe_db_instances(DBInstanceIdentifier)">>)

get_source_instance(r) ==
    IF r.source_instance # NoneInstance
    THEN Ret(r, r.source_instance, <<>>)
    ELSE IF r.source_instance_identifier = NoneId
    THEN MatchEndpoint(r, 1, <<"describe_db_instances()">>)
    ELSE LookupInstance(r, InstancesById(r.source_instance_identifier))

\* get_source_instance_identifier once get_source_instance has returned i
StoreSourceIdentifier(i) ==
    IF ~i.ok THEN i
    ELSE Ret([i.r EXCEPT !.source_instance_identifier = i.val.id],
             i.val.id, i.calls)

get_source_instance_identifier(r) ==
    IF r.source_instance_identifier # NoneId
    THEN Ret(r, r.source_instance_identifier, <<>>)
    ELSE StoreSourceIdentifier(get_source_instance(r))

\* describe_db_snapshots(DBInstanceIdentifier=id)
SnapshotsOfInstance(id) == SelectSeq(dbSnapshots, LAMBDA s : s.inst = id)

\* describe_db_snapshots(DBSnapshotIdentifier=id)
SnapshotsById(id) == SelectSeq(dbSnapshots, LAMBDA s : s.id = id)

\* the most recent snapshot of a response that is not empty
MostRecent(response) == SortDesc(response)[1]

\* get_snapshot_identifier from the response of describe_db_snapshots on
SelectSnapshot(r, response, calls) ==
    IF Len(response) = 0
    THEN Raise(r, "No snapshots found", calls)
    ELSE IF SortRaises(response)
    THEN Raise(r, "TypeError", calls)
    ELSE Ret([r EXCEPT !.snapshot_identifier = MostRecent(response).id],
             MostRecent(response).id, calls)

\* get_snapshot_identifier once get_source_instance_identifier has returned s
DiscoverSnapshot(s) ==
    IF ~s.ok THEN s
    ELSE SelectSnapshot(s.r, SnapshotsOfInstance(s.val),
             s.calls \o <<"describe_db_snapshots(DBInstanceIdentifier)">>)

get_snapshot_identifier(r) ==
    IF r.snapshot_identifier # NoneText
    THEN Ret(r, r.snapshot_identifier, <<>>)
    ELSE DiscoverSnapshot(get_source_instance_identifier(r))

\* get_snapshot from the response of describe_db_snapshots on
StoreSnapshot(r, response, calls) ==
    IF Len(response) = 0
    THEN Raise(r, "Snapshot not found", calls)
    ELSE Ret([r EXCEPT !.snapshot = response[1],
                       !.source_instance_identifier = response[1].inst],
             response[1], calls)

\* get_snapshot once get_snapshot_identifier has returned si
FetchSnapshot(si) ==
    IF ~si.ok THEN si
    ELSE StoreSnapshot(si.r, SnapshotsById(si.val),
             si.calls \o <<"describe_db_snapshots(DBSnapshotIdentifier)">>)

get_snapshot(r) ==
    IF r.snapshot # NoneSnapshot
    THEN Ret(r, r.snapshot, <<>>)
    ELSE FetchSnapshot(get_snapshot_identifier(r))

-----------------------------------------------------------------------------
(* The environment the provider, the DNS and the constructor arguments are  *)
(* drawn from                                                              *)

Hostnames == {NoneText, "db.internal"}
SourceIds == {NoneId, IdA, IdB}
SnapshotIds == {NoneText, "snap-1", "snap-3", "snap-9"}

\* RdsSnapshotFinder.__init__ raises when all three arguments are None
CtorArgs ==
    {a \in [hostname : Hostnames, source_instance_identifier : SourceIds,
            snapshot_identifier : SnapshotIds] :
        ~(/\ a.hostname = NoneText
          /\ a.source_instance_identifier = NoneId
          /\ a.snapshot_identifier = NoneText)}

SnapshotName(i) ==
    CASE i = 1 -> "snap-1"
      [] i = 2 -> "snap-2"
      [] i = 3 -> "snap-3"
      [] i = 4 -> "snap-4"
      [] OTHER -> "snap-5"

CreateTimes == 1..MaxCreateTime

\* what one snapshot of a list may be: its instance, and its creation time
\* if it has one (a snapshot being created has none)
SnapshotShapes(instances) ==
    {sh \in [inst : instances, hasTime : BOOLEAN, time : 0..MaxCreateTime] :
        sh.hasTime <=> sh.time # 0}

\* every list of at most MaxSnapshots snapshots, named by position
SnapshotLists(instances) ==
    UNION {{[i \in 1..n |-> Snap(SnapshotName(i), f[i].inst, f[i].hasTime,
                                 f[i].time)] :
               f \in [1..n -> SnapshotShapes(instances)]} :
           n \in 0..MaxSnapshots}

ScenarioSnapshots ==
    {<<>>,
     <<Snap("snap-1", IdA, TRUE, 1), Snap("snap-2", IdA, TRUE, 2),
       Snap("snap-3", IdB, TRUE, 2)>>,
     <<Snap("snap-1", IdA, TRUE, 2), Snap("snap-2", IdA, FALSE, 0)>>}

ScenarioInstances == {<<InstC, InstB, InstA>>, <<InstB>>}

DnsAnswers == {NameA, NameZ, NameOutside, NxDomain}

Args(hostname, source_instance_identifier, snapshot_identifier) ==
    [hostname |-> hostname,
     source_instance_identifier |-> source_instance_identifier,
     snapshot_identifier |-> snapshot_identifier]

\* the finders a workspace is built on: one per way of resolving, one whose
\* snapshot belongs to another instance than the one named, and one whose
\* snapshot does not exist
WorkspaceCtorArgs ==
    {Args("db.internal", NoneId, NoneText), Args(NoneText, IdA, NoneText),
     Args(NoneText, NoneId, "snap-1"), Args(NoneText, IdA, "snap-3"),
     Args(NoneText, NoneId, "snap-9")}

CreateTimeTypes == {"datetime", "number"}

\* the workspace before ScrubWorkspaceInstance.__init__ has run
WsAbsent ==
    [phase |-> "absent", timeout |-> 0, password |-> NoneText,
     source_snapshot |-> NoneSnapshot, instance_identifier |-> NoneId,
     final_snapshot_identifier |-> NoneId, source_instance |-> NoneInstance,
     instance |-> NoneInstance, deleted |-> FALSE, security_groups |-> <<>>]

RetentionIdle ==
    /\ keep = 0
    /\ listed = <<>>
    /\ toDelete = <<>>
    /\ deleteRequests = <<>>

WsIdle ==
    /\ ws = WsAbsent
    /\ pc = "idle"
    /\ max_end_time = 0
    /\ events = {}
    /\ RetentionIdle
    /\ polls = 0
    /\ lastPoll = NoPoll

\* the task manager before Postgresql.__init__ has run; with the object's
\* attributes, the argument of the last run_task call, the databases the
\* last call has connected to and what the last get_viable_tasks call has
\* returned, as a set
PgAbsent ==
    [phase |-> "absent", db_suffix |-> NoneText, db_realnames |-> <<>>,
     viable_tasks |-> [known |-> FALSE, tasks |-> {}],
     task |-> <<>>, opened |-> <<>>, returned |-> {}]

TasksIdle ==
    /\ pgDatabases = <<>>
    /\ pg = PgAbsent

\* the finder methods called from outside
ResolverOps ==
    {"get_snapshot", "get_snapshot_identifier",
     "get_source_instance_identifier", "get_source_instance",
     "get_rds_endpoint_address"}

NoReturns == [op \in ResolverOps |-> [known |-> FALSE, val |-> <<>>]]

ObserverInit ==
    /\ firstReturn = NoReturns
    /\ lastOp = NoneText
    /\ lastResult = NoOutcome
    /\ lastCalls = <<>>

-----------------------------------------------------------------------------
(* The resolver alone: any sequence of calls of its methods *)

InitResolver ==
    /\ dbSnapshots \in ScenarioSnapshots
    /\ dbInstances \in ScenarioInstances
    /\ dnsAnswer \in DnsAnswers
    /\ createTimeType \in CreateTimeTypes
    /\ now = 0
    /\ ctor \in CtorArgs
    /\ finder = FinderInit(ctor.hostname, ctor.source_instance_identifier,
                           ctor.snapshot_identifier)
    /\ WsIdle
    /\ TasksIdle
    /\ ObserverInit

\* history: the value of the first call of op that returned, as a sequence
\* of one element
Remember(op, res) ==
    IF res.ok /\ ~firstReturn[op].known
    THEN [firstReturn EXCEPT ![op] = [known |-> TRUE, val |-> <<res.val>>]]
    ELSE firstReturn

FinderCall(op, res) ==
    /\ finder' = res.r
    /\ lastOp' = op
    /\ lastResult' = Outcome(res)
    /\ lastCalls' = res.calls
    /\ firstReturn' = Remember(op, res)
    /\ UNCHANGED <<envVars, now, ctor, wsVars, taskVars>>

GetSnapshot == FinderCall("get_snapshot", get_snapshot(finder))

GetSnapshotIdentifier ==
    FinderCall("get_snapshot_identifier", get_snapshot_identifier(finder))

GetSourceInstanceIdentifier ==
    FinderCall("get_source_instance_identifier",
               get_source_instance_identifier(finder))

GetSourceInstance ==
    FinderCall("get_source_instance", get_source_instance(finder))

GetRdsEndpointAddress ==
    FinderCall("get_rds_endpoint_address", get_rds_endpoint_address(finder))

NextResolver ==
    \/ GetSnapshot
    \/ GetSnapshotIdentifier
    \/ GetSourceInstanceIdentifier
    \/ GetSourceInstance
    \/ GetRdsEndpointAddress

SpecResolver == InitResolver /\ [][NextResolver]_vars

\* snapshot selection over every snapshot list within the bounds, for a
\* finder constructed from a source instance identifier
InitSelect ==
    /\ dbSnapshots \in SnapshotLists({IdA, IdB})
    /\ dbInstances = <<InstC, InstB, InstA>>
    /\ dnsAnswer = NameA
    /\ createTimeType \in CreateTimeTypes
    /\ now = 0
    /\ ctor = [hostname |-> NoneText, source_instance_identifier |-> IdA,
               snapshot_identifier |-> NoneText]
    /\ finder = FinderInit(ctor.hostname, ctor.source_instance_identifier,
                           ctor.snapshot_identifier)
    /\ WsIdle
    /\ TasksIdle
    /\ ObserverInit

SpecSelect == InitSelect /\ [][NextResolver]_vars

-----------------------------------------------------------------------------
(* ScrubWorkspaceInstance *)

SecurityGroupKinds == {"str", "list", "NoneType"}

\* the identifiers of the active groups of source_instance['VpcSecurityGroups']
ActiveGroupIds(groups) ==
    [i \in 1..Len(SelectSeq(groups, LAMBDA g : g.status = "active")) |->
        SelectSeq(groups, LAMBDA g : g.status = "active")[i].id]

\* __init__: the security_groups argument made a list
SecurityGroups(kind, source_instance) ==
    CASE kind = "str" -> <<"sg-9">>
      [] kind = "list" -> <<"sg-8", "sg-9">>
      [] OTHER -> ActiveGroupIds(source_instance.groups)

\* "scrubber-{engine}-{sha256(DBInstanceIdentifier)[0:12]}"
InstanceIdentifier(snapshot) ==
    <<"scrubber", snapshot.engine, "sha256[0:12]">> \o snapshot.inst

\* "scrubbed-{DBInstanceIdentifier}-{timestamp}"
FinalSnapshotIdentifier(snapshot) ==
    <<"scrubbed">> \o snapshot.inst \o <<"%Y-%m-%d-%H-%M">>

NewWorkspace(timeout, kind, snapshot, source_instance) ==
    [phase |-> "live", timeout |-> timeout, password |-> "getrandbits(164)",
     source_snapshot |-> snapshot,
     instance_identifier |-> InstanceIdentifier(snapshot),
     final_snapshot_identifier |-> FinalSnapshotIdentifier(snapshot),
     source_instance |-> source_instance,
     instance |-> NoneInstance, deleted |-> FALSE,
     security_groups |-> SecurityGroups(kind, source_instance)]

\* __init__ once get_snapshot has returned s and get_source_instance i
ResolveSource(s, i) ==
    IF ~i.ok THEN Raise(i.r, i.err, s.calls \o i.calls)
    ELSE Ret(i.r, [snapshot |-> s.val, source_instance |-> i.val],
             s.calls \o i.calls)

\* an __init__ that leaves the source instance to be resolved later
ResolveSnapshotOnly(s) ==
    IF ~s.ok THEN s
    ELSE Ret(s.r, [snapshot |-> s.val, source_instance |-> NoneInstance],
             s.calls)

\* the two resolver calls of __init__
ResolveSnapshot(s) ==
    IF ~s.ok THEN s ELSE ResolveSource(s, get_source_instance(s.r))

ConstructFrom(timeout, kind, res) ==
    /\ finder' = res.r
    /\ ws' = IF res.ok
             THEN NewWorkspace(timeout, kind, res.val.snapshot,
                               res.val.source_instance)
             ELSE ws
    /\ lastOp' = "__init__"
    /\ lastResult' = IF res.ok THEN Returned(<<>>) ELSE Raised(res.err)
    /\ lastCalls' = res.calls

\* ScrubWorkspaceInstance(snapshot_finder, boto3_session, timeout,
\* security_groups)
Construct ==
    /\ ws.phase = "absent"
    /\ pc = "idle"
    /\ \E timeout \in 0..MaxTimeout, kind \in SecurityGroupKinds :
          ConstructFrom(timeout, kind, ResolveSnapshot(get_snapshot(finder)))
    /\ UNCHANGED <<envVars, firstReturn, taskVars, now, ctor, pc,
                   max_end_time, events, retentionVars, polls, lastPoll>>

Getters == {"get_instance", "get_endpoint", "get_username"}

\* what a getter makes of the instance get_instance returns
Accessor(m, instance) ==
    CASE m = "get_endpoint" ->
            IF instance.hasEndpoint THEN Returned(instance.address)
            ELSE Raised("KeyError")
      [] m = "get_username" -> Returned(<<"MasterUsername">>)
      [] OTHER -> Returned(instance)

\* a get_instance that provisions again once the workspace is deleted
NeedsInstanceOrDeleted(w) == w.instance = NoneInstance \/ w.deleted

\* get_instance: "if self.instance is None"
NeedsInstance(w) == w.instance = NoneInstance

\* a deadline that takes self.timeout for seconds
DeadlineInSeconds(w) == now + w.timeout

\* the time.time() + 60 * self.timeout of the three waits
Deadline(w) == now + SecondsPerMinute * w.timeout

\* what describe_db_instances gives for the workspace instance
PolledInstance(w, status) ==
    [id |-> w.instance_identifier, hasEndpoint |-> status # "creating",
     address |-> <<"scrubber", "rds", "amazonaws", "com">>,
     subnet |-> w.source_instance.subnet, groups |-> <<>>, status |-> status]

ProviderReplies == {Status("ok"), Error("ClientError", "Throttling")}

\* history: a restore request, and a second one
Restore ==
    IF "restore" \in events THEN {"restore", "restore again"}
    ELSE {"restore"}

\* history: a restore request, a modify request or an assignment to
\* self.instance made after a getter has returned
Provisioning(happened) ==
    IF "returned" \in events
    THEN happened \cup {"provisioning after returned"}
    ELSE happened

\* history: a delete request, and one that follows a delete request that
\* succeeded
DeleteIssued ==
    IF "deleted" \in events THEN {"delete", "delete after deleted"}
    ELSE {"delete"}

\* the end of a public workspace call
EndCall(result, happened) ==
    /\ pc' = "idle"
    /\ lastResult' = result
    /\ events' = events \cup happened

\* __create_instance up to the wait, get_snapshot_identifier having
\* returned sid and the restore request reply
CreateInstance(m, sid, reply) ==
    /\ finder' = sid.r
    /\ IF ~sid.ok
       THEN /\ EndCall(Raised(sid.err), {"getter raised"})
            /\ lastCalls' = sid.calls
            /\ UNCHANGED max_end_time
       ELSE /\ lastCalls' = sid.calls
                            \o <<"restore_db_instance_from_db_snapshot">>
            /\ IF reply.raised
               THEN /\ EndCall(Raised(reply.type),
                            Provisioning(Restore \cup {"getter raised",
                                                       "provider error"}))
                    /\ UNCHANGED max_end_time
               ELSE /\ pc' = "create_wait"
                    /\ lastResult' = NoOutcome
                    /\ events' = events \cup Provisioning(Restore)
                    /\ max_end_time' = Deadline(ws)

\* get_instance, get_endpoint, get_username: the call up to its first wait
GetInstance(m) ==
    /\ ws.phase = "live"
    /\ pc = "idle"
    /\ lastOp' = m
    /\ now' = 0
    /\ polls' = 0
    /\ lastPoll' = NoPoll
    /\ IF NeedsInstance(ws)
       THEN \E reply \in ProviderReplies :
               CreateInstance(m, get_snapshot_identifier(finder), reply)
       ELSE /\ EndCall(Accessor(m, ws.instance),
                       IF Accessor(m, ws.instance).ok THEN {"returned"}
                       ELSE {"getter raised"})
            /\ lastCalls' = <<>>
            /\ UNCHANGED <<finder, max_end_time>>
    /\ UNCHANGED <<envVars, firstReturn, taskVars, ctor, ws, retentionVars>>

GetInstanceCall == \E m \in Getters : GetInstance(m)

\* get_password
GetPassword ==
    /\ ws.phase = "live"
    /\ pc = "idle"
    /\ lastOp' = "get_password"
    /\ lastResult' = Returned(<<ws.password>>)
    /\ lastCalls' = <<>>
    /\ now' = 0
    /\ polls' = 0
    /\ lastPoll' = NoPoll
    /\ UNCHANGED <<envVars, firstReturn, taskVars, ctor, finder, ws, pc,
                   max_end_time, events, retentionVars>>

\* a describe_db_instances call that never returns
NoReply == {}

InstancePolls ==
    {Status("creating"), Status("available"),
     Error("ClientError", "Throttling")}

\* one turn of the while loop of __create_instance
CreatePoll ==
    /\ pc = "create_wait"
    /\ now <= max_end_time
    /\ polls' = polls + 1
    /\ \E poll \in InstancePolls :
          /\ lastPoll' = poll
          /\ IF poll.raised
             THEN /\ EndCall(Raised(poll.type),
                             {"getter raised", "provider error"})
                  /\ UNCHANGED <<ws, now>>
             ELSE /\ ws' = [ws EXCEPT
                               !.instance = PolledInstance(ws, poll.status)]
                  /\ events' = events \cup Provisioning({})
                  /\ IF poll.status = "available"
                     THEN /\ pc' = "apply_modifications"
                          /\ UNCHANGED now
                     ELSE /\ now' = now + PollSleepSeconds
                          /\ UNCHANGED pc
                  /\ UNCHANGED lastResult
    /\ UNCHANGED <<envVars, firstReturn, taskVars, ctor, finder, max_end_time,
                   retentionVars, lastOp, lastCalls>>

\* the while loop of __create_instance ends: raise TimeoutError
CreateTimeout ==
    /\ pc = "create_wait"
    /\ now > max_end_time
    /\ EndCall(Raised("TimeoutError"), {"getter raised"})
    /\ UNCHANGED <<envVars, firstReturn, taskVars, now, ctor, finder, ws,
                   max_end_time, retentionVars, lastOp, lastCalls, polls,
                   lastPoll>>

\* __apply_instance_modifications up to the wait
ApplyInstanceModifications ==
    /\ pc = "apply_modifications"
    /\ lastCalls' = lastCalls \o <<"modify_db_instance">>
    /\ polls' = 0
    /\ lastPoll' = NoPoll
    /\ \E reply \in ProviderReplies :
          IF reply.raised
          THEN /\ EndCall(Raised(reply.type),
                       Provisioning({"modify", "getter raised",
                                     "provider error"}))
               /\ UNCHANGED max_end_time
          ELSE /\ pc' = "modify_wait"
               /\ events' = events \cup Provisioning({"modify"})
               /\ max_end_time' = Deadline(ws)
               /\ UNCHANGED lastResult
    /\ UNCHANGED <<envVars, firstReturn, taskVars, now, ctor, finder, ws,
                   retentionVars, lastOp>>

ModificationPolls ==
    {Status("pending"), Status("applied"), Error("ClientError", "Throttling")}

\* one turn of the while loop of __apply_instance_modifications; when
\* nothing is pending, get_instance returns self.instance
ModifyPoll ==
    /\ pc = "modify_wait"
    /\ now <= max_end_time
    /\ polls' = polls + 1
    /\ \E poll \in ModificationPolls :
          /\ lastPoll' = poll
          /\ IF poll.raised
             THEN /\ EndCall(Raised(poll.type),
                             {"getter raised", "provider error"})
                  /\ UNCHANGED now
             ELSE IF poll.status = "pending"
             THEN /\ now' = now + PollSleepSeconds
                  /\ UNCHANGED <<pc, events, lastResult>>
             ELSE /\ EndCall(Accessor(lastOp, ws.instance),
                             IF Accessor(lastOp, ws.instance).ok
                             THEN {"applied", "returned"}
                             ELSE {"applied", "getter raised"})
                  /\ UNCHANGED now
    /\ UNCHANGED <<envVars, firstReturn, taskVars, ctor, finder, ws,
                   max_end_time, retentionVars, lastOp, lastCalls>>

\* the while loop of __apply_instance_modifications ends: raise TimeoutError
ModifyTimeout ==
    /\ pc = "modify_wait"
    /\ now > max_end_time
    /\ EndCall(Raised("TimeoutError"), {"getter raised"})
    /\ UNCHANGED <<envVars, firstReturn, taskVars, now, ctor, finder, ws,
                   max_end_time, retentionVars, lastOp, lastCalls, polls,
                   lastPoll>>

\* a cleanup that does not look at self.deleted
CleanupNeededUnguarded(w) == w.instance # NoneInstance

\* cleanup: "if self.instance is not None and not self.deleted"
CleanupNeeded(w) == w.instance # NoneInstance /\ ~w.deleted

DeleteRequest(create_final_snapshot) ==
    IF create_final_snapshot
    THEN "delete_db_instance(FinalDBSnapshotIdentifier)"
    ELSE "delete_db_instance(SkipFinalSnapshot)"

\* cleanup(create_final_snapshot) up to the wait
Cleanup(create_final_snapshot) ==
    /\ ws.phase = "live"
    /\ pc = "idle"
    /\ lastOp' = "cleanup"
    /\ now' = 0
    /\ polls' = 0
    /\ lastPoll' = NoPoll
    /\ IF CleanupNeeded(ws)
       THEN /\ lastCalls' = <<DeleteRequest(create_final_snapshot)>>
            /\ \E reply \in ProviderReplies :
                  IF reply.raised
                  THEN /\ EndCall(Raised(reply.type),
                                  DeleteIssued \cup {"provider error"})
                       /\ UNCHANGED <<ws, max_end_time>>
                  ELSE /\ ws' = [ws EXCEPT !.deleted = TRUE]
                       /\ IF create_final_snapshot
                          THEN /\ pc' = "final_wait"
                               /\ lastResult' = NoOutcome
                               /\ events' = events \cup DeleteIssued
                                                   \cup {"deleted"}
                               /\ max_end_time' = Deadline(ws)
                          ELSE /\ EndCall(Returned(<<>>),
                                       DeleteIssued \cup {"deleted"})
                               /\ UNCHANGED max_end_time
       ELSE /\ lastCalls' = <<>>
            /\ lastResult' = Returned(<<>>)
            /\ UNCHANGED <<ws, pc, events, max_end_time>>
    /\ UNCHANGED <<envVars, firstReturn, taskVars, ctor, finder,
                   retentionVars>>

CleanupCall == \E create_final_snapshot \in BOOLEAN :
                  Cleanup(create_final_snapshot)

\* what describe_db_snapshots(DBSnapshotIdentifier=final) gives or raises:
\* a status, an empty list (the [0] raises IndexError), a ClientError, or
\* an exception that is no ClientError
SnapshotPolls ==
    {Status("creating"), Status("available"),
     Error("ClientError", "DBSnapshotNotFound"),
     Error("ClientError", "Throttling"),
     Error("IndexError", NoneText),
     Error("EndpointConnectionError", NoneText)}

\* the except clause of __wait_for_final_snapshot: what it raises for e,
\* "" when it sleeps instead. e.response exists on a ClientError only.
ExceptClause(e) ==
    IF e.type # "ClientError" THEN "AttributeError"
    ELSE IF e.code = "DBSnapshotNotFound" THEN ""
    ELSE e.type

\* one turn of the while loop of __wait_for_final_snapshot
FinalPoll ==
    /\ pc = "final_wait"
    /\ now <= max_end_time
    /\ polls' = polls + 1
    /\ \E poll \in SnapshotPolls :
          /\ lastPoll' = poll
          /\ IF poll.raised /\ ExceptClause(poll) # ""
             THEN /\ EndCall(Raised(ExceptClause(poll)),
                             {})
                  /\ UNCHANGED now
             ELSE IF ~poll.raised /\ poll.status = "available"
             THEN /\ EndCall(Returned(<<>>), {})
                  /\ UNCHANGED now
             ELSE /\ now' = now + PollSleepSeconds
                  /\ UNCHANGED <<pc, events, lastResult>>
    /\ UNCHANGED <<envVars, firstReturn, taskVars, ctor, finder, ws,
                   max_end_time, retentionVars, lastOp, lastCalls>>

\* the while loop of __wait_for_final_snapshot ends: the method returns
FinalExpire ==
    /\ pc = "final_wait"
    /\ now > max_end_time
    /\ EndCall(Returned(<<>>), {})
    /\ UNCHANGED <<envVars, firstReturn, taskVars, now, ctor, finder, ws,
                   max_end_time, retentionVars, lastOp, lastCalls, polls,
                   lastPoll>>

-----------------------------------------------------------------------------
(* The workspace built on a resolver: any sequence of its public calls *)

Init ==
    /\ dbSnapshots = <<Snap("snap-1", IdA, TRUE, 1),
                       Snap("snap-2", IdA, TRUE, 2),
                       Snap("snap-3", IdB, TRUE, 2)>>
    /\ dbInstances = <<InstC, InstB, InstA>>
    /\ dnsAnswer \in {NameA, NameOutside}
    /\ createTimeType = "datetime"
    /\ now = 0
    /\ ctor \in WorkspaceCtorArgs
    /\ finder = FinderInit(ctor.hostname, ctor.source_instance_identifier,
                           ctor.snapshot_identifier)
    /\ WsIdle
    /\ TasksIdle
    /\ ObserverInit

Next ==
    \/ Construct
    \/ GetInstanceCall
    \/ GetPassword
    \/ CreatePoll
    \/ CreateTimeout
    \/ ApplyInstanceModifications
    \/ ModifyPoll
    \/ ModifyTimeout
    \/ CleanupCall
    \/ FinalPoll
    \/ FinalExpire

Spec == Init /\ [][Next]_vars

\* the steps a call takes between its first wait and its end: the thread
\* that runs the call goes on running, every provider call returns or
\* raises and every time.sleep(10) returns
WaitStep ==
    \/ CreatePoll
    \/ CreateTimeout
    \/ ApplyInstanceModifications
    \/ ModifyPoll
    \/ ModifyTimeout
    \/ FinalPoll
    \/ FinalExpire

\* every WaitStep changes the position of the call or counts a poll
waitVars == <<pc, now, polls>>

\* one resolver, and the provider and DNS it resolves against
InitLive ==
    /\ Init
    /\ dnsAnswer = NameA
    /\ ctor = Args(NoneText, IdA, NoneText)

\* the calls that wait: get_instance, which get_endpoint and get_username
\* begin with, and cleanup
NextLive ==
    \/ Construct
    \/ GetInstance("get_instance")
    \/ CleanupCall
    \/ WaitStep

SpecLive == InitLive /\ [][NextLive]_vars /\ WF_waitVars(WaitStep)

-----------------------------------------------------------------------------
(* delete_old_snapshots *)

\* the snapshots of the response that belong to the workspace instance
OwnSnapshots(response, instance_identifier) ==
    SelectSeq(response, LAMBDA sn : sn.inst = instance_identifier)

\* snapshots[number_to_keep:]
SnapsToDelete(snapshots, number_to_keep) ==
    SubSeq(snapshots, number_to_keep + 1, Len(snapshots))

\* delete_old_snapshots up to its for loop, on the response of
\* describe_db_snapshots(IncludeShared=True)
DeleteOldSnapshotsOn(number_to_keep, response) ==
    /\ keep' = number_to_keep
    /\ listed' = response
    /\ deleteRequests' = <<>>
    /\ lastOp' = "delete_old_snapshots"
    /\ lastCalls' = <<"describe_db_snapshots(IncludeShared)">>
    /\ IF SortRaises(OwnSnapshots(response, ws.instance_identifier))
       THEN /\ pc' = "idle"
            /\ lastResult' = Raised("TypeError")
            /\ toDelete' = <<>>
       ELSE /\ toDelete' = SnapsToDelete(
                  SortDesc(OwnSnapshots(response, ws.instance_identifier)),
                  number_to_keep)
            /\ pc' = IF toDelete' = <<>> THEN "idle" ELSE "delete_loop"
            /\ lastResult' = IF toDelete' = <<>> THEN Returned(<<>>)
                             ELSE NoOutcome

DeleteOldSnapshots ==
    /\ ws.phase = "live"
    /\ pc = "idle"
    /\ \E number_to_keep \in 0..MaxKeep :
          DeleteOldSnapshotsOn(number_to_keep, dbSnapshots)
    /\ UNCHANGED <<envVars, firstReturn, taskVars, now, ctor, finder, ws,
                   max_end_time, events, polls, lastPoll>>

\* the provider's list once it has deleted the snapshot
WithoutSnapshot(id) == SelectSeq(dbSnapshots, LAMBDA sn : sn.id # id)

\* one turn of the for loop of delete_old_snapshots
DeleteSnapshot ==
    /\ pc = "delete_loop"
    /\ deleteRequests' = Append(deleteRequests, Head(toDelete).id)
    /\ \E reply \in ProviderReplies :
          IF reply.raised
          THEN /\ pc' = "idle"
               /\ lastResult' = Raised(reply.type)
               /\ UNCHANGED <<toDelete, dbSnapshots>>
          ELSE /\ toDelete' = Tail(toDelete)
               /\ dbSnapshots' = WithoutSnapshot(Head(toDelete).id)
               /\ pc' = IF toDelete' = <<>> THEN "idle" ELSE "delete_loop"
               /\ lastResult' = IF toDelete' = <<>> THEN Returned(<<>>)
                                ELSE NoOutcome
    /\ UNCHANGED <<dbInstances, dnsAnswer, createTimeType, firstReturn,
                   taskVars, now, ctor, finder, ws, max_end_time, events,
                   keep, listed, lastOp, lastCalls, polls, lastPoll>>

\* the snapshot the retention workspace was restored from
RetentionSource == Snap("snap-0", IdA, TRUE, 1)

\* another workspace, whose final snapshots the provider lists as well
OtherWorkspace == InstanceIdentifier(Snap("snap-0", IdB, TRUE, 1))

\* a workspace built on a finder that resolved RetentionSource, and every
\* list of final snapshots within the bounds
InitRetention ==
    /\ dbSnapshots \in
          SnapshotLists({InstanceIdentifier(RetentionSource), OtherWorkspace})
    /\ dbInstances = <<InstC, InstB, InstA>>
    /\ dnsAnswer = NameA
    /\ createTimeType \in CreateTimeTypes
    /\ now = 0
    /\ ctor = Args(NoneText, NoneId, "snap-0")
    /\ finder = [FinderInit(NoneText, IdA, "snap-0") EXCEPT
                    !.snapshot = RetentionSource, !.source_instance = InstA]
    /\ ws = NewWorkspace(MaxTimeout, "NoneType", RetentionSource, InstA)
    /\ pc = "idle"
    /\ max_end_time = 0
    /\ events = {}
    /\ RetentionIdle
    /\ polls = 0
    /\ lastPoll = NoPoll
    /\ TasksIdle
    /\ ObserverInit

NextRetention ==
    \/ DeleteOldSnapshots
    \/ DeleteSnapshot

SpecRetention == InitRetention /\ [][NextRetention]_vars

-----------------------------------------------------------------------------
(* Postgresql: the scrub task runner. A database name is a tuple of text   *)
(* fragments, its last fragment being the suffix when it has one; a task   *)
(* name is the tuple of one fragment.                                      *)

\* the keys of self.scrub_functions
scrub_functions == {<<"email-alert-api">>, <<"publishing_api">>}

\* the task names run_task is called with
TaskNames == scrub_functions \cup {<<"whitehall">>, <<"mapit">>}

DbSuffixes == {"_production", "_test"}

\* the databases a server may hold
DatabaseNames ==
    {<<"publishing_api", "_production">>, <<"publishing_api">>,
     <<"email-alert-api", "_test">>, <<"whitehall", "_production">>,
     <<"mapit", "_production", "_production">>}

\* the lists of distinct rows of at most n names
DatabaseListsUpTo(n) ==
    {rows \in UNION {[1..k -> DatabaseNames] : k \in 0..n} :
        \A i, j \in DOMAIN rows : rows[i] = rows[j] => i = j}

DatabaseLists == DatabaseListsUpTo(MaxDatabases)

\* re.compile('{0}$'.format(db_suffix)).sub('', database_name)
normalised_name(database_name, db_suffix) ==
    IF database_name # <<>> /\ database_name[Len(database_name)] = db_suffix
    THEN SubSeq(database_name, 1, Len(database_name) - 1)
    ELSE database_name

\* self.db_realnames[normalised_name] = database_name
SetRealname(db_realnames, normalised, database_name) ==
    [n \in DOMAIN db_realnames \cup {normalised} |->
        IF n = normalised THEN database_name ELSE db_realnames[n]]

\* the for loop of _discover_available_dbs
RECURSIVE Realnames(_, _, _)
Realnames(available_dbs, db_suffix, db_realnames) ==
    IF available_dbs = <<>> THEN db_realnames
    ELSE Realnames(Tail(available_dbs), db_suffix,
                   SetRealname(db_realnames,
                               normalised_name(Head(available_dbs), db_suffix),
                               Head(available_dbs)))

\* what self.workspace.get_instance() comes to, seen from the task runner:
\* the cached instance, or a provisioning that returns the available
\* instance, times out with the instance polled, or fails on a request
InstanceOutcomes(w) ==
    IF ~NeedsInstance(w)
    THEN {[ws |-> w, ok |-> TRUE, err |-> ""]}
    ELSE {[ws |-> [w EXCEPT !.instance = PolledInstance(w, "available")],
           ok |-> TRUE, err |-> ""],
          [ws |-> [w EXCEPT !.instance = PolledInstance(w, "creating")],
           ok |-> FALSE, err |-> "TimeoutError"],
          [ws |-> w, ok |-> FALSE, err |-> "ClientError"]}

\* the steps of the task runner that may raise
ConnectionSteps == {"connect", "cursor", "execute"}
TaskSteps == {"connect", "cursor", "routine", "commit", "rollback"}

\* a call that raised, in the observer's list of calls
RaisedTag ==
    [connect |-> "connect raised", cursor |-> "cursor raised",
     execute |-> "execute raised", routine |-> "routine raised",
     commit |-> "commit raised", rollback |-> "rollback raised"]

Call(step, faults) ==
    IF step \in faults THEN <<RaisedTag[step]>> ELSE <<step>>

\* _get_connection: the error it raises, "" when it returns a connection
ConnectionError(i, faults) ==
    IF ~i.ok THEN i.err
    ELSE IF ~i.ws.instance.hasEndpoint THEN "KeyError"
    ELSE IF "connect" \in faults THEN "OperationalError"
    ELSE ""

\* _get_connection: the psycopg2.connect call it makes, if it comes to it
ConnectCalls(i, faults) ==
    IF i.ok /\ i.ws.instance.hasEndpoint THEN Call("connect", faults)
    ELSE <<>>

\* _get_connection: the database it connects to, if it comes to it
Opened(i, dbname) ==
    IF i.ok /\ i.ws.instance.hasEndpoint THEN <<dbname>> ELSE <<>>

\* _discover_available_dbs on an open connection: cursor, execute, fetchall
DiscoveryCalls(faults) ==
    Call("cursor", faults)
    \o (IF "cursor" \in faults THEN <<>> ELSE Call("execute", faults))

DiscoveryError(faults) ==
    IF "cursor" \in faults THEN "InterfaceError"
    ELSE IF "execute" \in faults THEN "ProgrammingError"
    ELSE ""

NewPostgresql(db_suffix, rows) ==
    [phase |-> "live", db_suffix |-> db_suffix,
     db_realnames |-> Realnames(rows, db_suffix, <<>>),
     viable_tasks |-> [known |-> FALSE, tasks |-> {}],
     task |-> <<>>, opened |-> <<>>, returned |-> {}]

\* Postgresql.__init__ with get_instance having come to i
PgConstructFrom(db_suffix, i, faults) ==
    /\ ws' = i.ws
    /\ lastCalls' = ConnectCalls(i, faults)
                    \o (IF ConnectionError(i, faults) = ""
                        THEN DiscoveryCalls(faults) ELSE <<>>)
    /\ IF ConnectionError(i, faults) # ""
       THEN /\ lastResult' = Raised(ConnectionError(i, faults))
            /\ pg' = [pg EXCEPT !.opened = Opened(i, <<"postgres">>)]
       ELSE IF DiscoveryError(faults) # ""
       THEN /\ lastResult' = Raised(DiscoveryError(faults))
            /\ pg' = [pg EXCEPT !.opened = Opened(i, <<"postgres">>)]
       ELSE /\ lastResult' = Returned(<<>>)
            /\ pg' = [NewPostgresql(db_suffix, pgDatabases) EXCEPT
                         !.opened = Opened(i, <<"postgres">>)]

\* Postgresql(workspace, db_suffix)
PgConstruct ==
    /\ pg.phase = "absent"
    /\ lastOp' = "Postgresql"
    /\ \E db_suffix \in DbSuffixes, faults \in SUBSET ConnectionSteps,
          i \in InstanceOutcomes(ws) :
             PgConstructFrom(db_suffix, i, faults)
    /\ UNCHANGED <<envVars, now, ctor, finder, firstReturn, pc, max_end_time,
                   events, retentionVars, polls, lastPoll, pgDatabases>>

\* a get_viable_tasks that takes every discovered database for a task
get_viable_tasks_unfiltered(p) ==
    IF ~p.viable_tasks.known
    THEN [p EXCEPT !.viable_tasks =
             [known |-> TRUE, tasks |-> DOMAIN p.db_realnames]]
    ELSE p

\* get_viable_tasks: the object it leaves; it returns its viable_tasks.tasks
get_viable_tasks(p) ==
    IF ~p.viable_tasks.known
    THEN [p EXCEPT !.viable_tasks =
             [known |-> TRUE,
              tasks |-> scrub_functions \cap DOMAIN p.db_realnames]]
    ELSE p

GetViableTasks ==
    /\ pg.phase = "live"
    /\ lastOp' = "get_viable_tasks"
    /\ pg' = [get_viable_tasks(pg) EXCEPT
                 !.task = <<>>, !.opened = <<>>,
                 !.returned = get_viable_tasks(pg).viable_tasks.tasks]
    /\ lastResult' = Returned(<<>>)
    /\ lastCalls' = <<>>
    /\ UNCHANGED <<envVars, now, ctor, finder, firstReturn, wsVars,
                   pgDatabases>>

\* a run_task that asks only whether the database exists
NotViableByDatabase(p, task) == task \notin DOMAIN p.db_realnames

\* run_task: "if task not in self.get_viable_tasks()"
NotViable(p, task) == task \notin get_viable_tasks(p).viable_tasks.tasks

\* run_task on an open connection: cursor, routine, commit, rollback
TaskCalls(faults) ==
    Call("cursor", faults)
    \o (IF "cursor" \in faults THEN <<>>
        ELSE Call("routine", faults)
             \o (IF "routine" \in faults THEN <<>>
                 ELSE Call("commit", faults))
             \o (IF {"routine", "commit"} \cap faults # {}
                 THEN Call("rollback", faults) ELSE <<>>))

\* a run_task that takes a commit that raised for a commit
TaskOutcomeCommitUnchecked(faults) ==
    IF "cursor" \in faults THEN Raised("InterfaceError")
    ELSE IF "routine" \notin faults THEN Returned(<<TRUE>>)
    ELSE IF "rollback" \in faults THEN Raised("OperationalError")
    ELSE Returned(<<FALSE>>)

TaskOutcome(faults) ==
    IF "cursor" \in faults THEN Raised("InterfaceError")
    ELSE IF {"routine", "commit"} \cap faults = {} THEN Returned(<<TRUE>>)
    ELSE IF "rollback" \in faults THEN Raised("OperationalError")
    ELSE Returned(<<FALSE>>)

\* run_task(task) with get_instance having come to i
RunTaskFrom(task, i, faults) ==
    IF NotViable(pg, task)
    THEN /\ pg' = [get_viable_tasks(pg) EXCEPT
                      !.task = task, !.opened = <<>>]
         /\ lastResult' = Returned(<<FALSE>>)
         /\ lastCalls' = <<>>
         /\ UNCHANGED ws
    ELSE /\ ws' = i.ws
         /\ pg' = [get_viable_tasks(pg) EXCEPT
                      !.task = task,
                      !.opened = Opened(i, pg.db_realnames[task])]
         /\ IF ConnectionError(i, faults) # ""
            THEN /\ lastResult' = Raised(ConnectionError(i, faults))
                 /\ lastCalls' = ConnectCalls(i, faults)
            ELSE /\ lastResult' = TaskOutcome(faults)
                 /\ lastCalls' = ConnectCalls(i, faults) \o TaskCalls(faults)

\* run_task(task)
RunTask ==
    /\ pg.phase = "live"
    /\ \E task \in TaskNames, faults \in SUBSET TaskSteps,
          i \in InstanceOutcomes(ws) :
             /\ lastOp' = "run_task"
             /\ RunTaskFrom(task, i, faults)
    /\ UNCHANGED <<envVars, now, ctor, finder, firstReturn, pc, max_end_time,
                   events, retentionVars, polls, lastPoll, pgDatabases>>

\* the workspaces a task runner is given: never asked for its instance,
\* provisioned, or left by a restore that timed out
TaskWorkspace == NewWorkspace(MaxTimeout, "NoneType", RetentionSource, InstA)

TaskWorkspaces ==
    {TaskWorkspace,
     [TaskWorkspace EXCEPT
         !.instance = PolledInstance(TaskWorkspace, "available")],
     [TaskWorkspace EXCEPT
         !.instance = PolledInstance(TaskWorkspace, "creating")]}

InitTasks ==
    /\ dbSnapshots = <<RetentionSource>>
    /\ dbInstances = <<InstC, InstB, InstA>>
    /\ dnsAnswer = NameA
    /\ createTimeType = "datetime"
    /\ now = 0
    /\ ctor = Args(NoneText, NoneId, "snap-0")
    /\ finder = [FinderInit(NoneText, IdA, "snap-0") EXCEPT
                    !.snapshot = RetentionSource, !.source_instance = InstA]
    /\ ws \in TaskWorkspaces
    /\ pc = "idle"
    /\ max_end_time = 0
    /\ events = {}
    /\ RetentionIdle
    /\ polls = 0
    /\ lastPoll = NoPoll
    /\ pgDatabases \in DatabaseLists
    /\ pg = PgAbsent
    /\ ObserverInit

NextTasks ==
    \/ PgConstruct
    \/ GetViableTasks
    \/ RunTask

SpecTasks == InitTasks /\ [][NextTasks]_vars

-----------------------------------------------------------------------------
(* Claims about the resolver *)

Range(seq) == {seq[i] : i \in DOMAIN seq}

SnapshotOnly ==
    /\ ctor.hostname = NoneText
    /\ ctor.source_instance_identifier = NoneId
    /\ ctor.snapshot_identifier # NoneText

\* C1: a finder constructed with only a snapshot identifier, whose snapshot
\* the provider reports as belonging to instance X: whenever
\* get_source_instance_identifier has been called, whatever was called
\* before it, it returned X and made no unfiltered describe_db_instances
\* call.
C1_SnapshotOnlyGivesOwner ==
    (/\ SnapshotOnly
     /\ SnapshotsById(ctor.snapshot_identifier) # <<>>
     /\ lastOp = "get_source_instance_identifier")
    => /\ lastResult.ok
       /\ lastResult.val = SnapshotsById(ctor.snapshot_identifier)[1].inst
       /\ "describe_db_instances()" \notin Range(lastCalls)

\* C8: a get_snapshot call changes the finder's source instance identifier
\* only if the identifier was unknown (None) before the call.
C8_BackfillOnlyWhenUnknown ==
    [][(GetSnapshot /\ finder.source_instance_identifier # NoneId)
       => finder'.source_instance_identifier
          = finder.source_instance_identifier]_vars

\* the snapshots the provider lists for the instance the finder was
\* constructed for
ListedForSource == SnapshotsOfInstance(ctor.source_instance_identifier)

\* position i of the list holds a maximal creation time (none counting as
\* oldest), and no earlier position does
FirstNewest(list, i) ==
    /\ \A j \in DOMAIN list : SortKey(list[j]) <= SortKey(list[i])
    /\ \A j \in 1..(i - 1) : SortKey(list[j]) < SortKey(list[i])

\* C9: no snapshot identifier supplied: get_snapshot_identifier fails if the
\* provider lists no snapshot for the source instance, and otherwise returns
\* the snapshot with the maximal creation time that comes first in the
\* provider's order, a snapshot without creation time counting as oldest.
C9_SelectsFirstNewest ==
    (lastOp = "get_snapshot_identifier" /\ ctor.snapshot_identifier = NoneText
     /\ ctor.source_instance_identifier # NoneId)
    => IF ListedForSource = <<>>
       THEN ~lastResult.ok
       ELSE /\ lastResult.ok
            /\ \E i \in DOMAIN ListedForSource :
                  /\ ListedForSource[i].id = lastResult.val
                  /\ FirstNewest(ListedForSource, i)

\* C16: once a call of a resolver method has returned, every later call of
\* that method makes no provider or DNS request, leaves the resolver's
\* attributes as they are and returns what the first call returned.
C16_Memoized ==
    [][\A op \in ResolverOps :
          (firstReturn[op].known /\ lastOp' = op)
          => /\ lastCalls' = <<>>
             /\ finder' = finder
             /\ lastResult' = Returned(firstReturn[op].val[1])]_vars

\* the resolver was constructed with a hostname only
HostnameOnly ==
    /\ ctor.hostname # NoneText
    /\ ctor.source_instance_identifier = NoneId
    /\ ctor.snapshot_identifier = NoneText

\* the canonical name of the hostname is inside the provider domain
CanonicalInDomain == is_subdomain(dnsAnswer, rds_domain)

\* the enumerated instances whose endpoint address is the canonical name
EndpointMatches ==
    {i \in 1..Len(dbInstances) :
        /\ dbInstances[i].hasEndpoint
        /\ dbInstances[i].address = to_text_rstrip(dnsAnswer)}

\* C17: for a resolver constructed with a hostname only, a cached source
\* instance, and so whatever get_source_instance returns, is an enumerated
\* instance whose endpoint address is the canonical name of the hostname,
\* and that name is inside the provider domain; when the canonical name is
\* outside the domain or no enumerated instance has that address,
\* get_source_instance fails and neither a source instance nor a
\* source-instance identifier is cached.
C17_HostnameMatchesEndpoint ==
    HostnameOnly
    => /\ finder.source_instance # NoneInstance
          => /\ CanonicalInDomain
             /\ \E i \in EndpointMatches :
                   /\ finder.source_instance = dbInstances[i]
                   /\ finder.source_instance_identifier = dbInstances[i].id
       /\ (lastOp = "get_source_instance" /\ lastResult.ok)
          => /\ finder.source_instance # NoneInstance
             /\ lastResult.val = finder.source_instance
       /\ (~CanonicalInDomain \/ EndpointMatches = {})
          => /\ finder.source_instance = NoneInstance
             /\ finder.source_instance_identifier = NoneId
             /\ lastOp = "get_source_instance" => ~lastResult.ok

\* get_source_instance has returned the instance the hostname resolves to,
\* found after instances with other endpoint addresses
C17_Witness ==
    /\ HostnameOnly
    /\ lastOp = "get_source_instance"
    /\ lastResult.ok
    /\ lastResult.val = InstA
    /\ Len(dbInstances) > 1
    /\ lastCalls = <<"describe_db_instances()", "dns.query">>

\* get_source_instance has failed for a canonical name outside the domain
C17_Refused ==
    /\ HostnameOnly
    /\ lastOp = "get_source_instance"
    /\ ~lastResult.ok
    /\ dnsAnswer = NameOutside

\* C19: a cached source instance has the resolver's source-instance
\* identifier, and a cached snapshot beside it belongs to that instance.
C19_CacheConsistent ==
    finder.source_instance # NoneInstance
    => /\ finder.source_instance.id = finder.source_instance_identifier
       /\ finder.snapshot # NoneSnapshot
          => finder.snapshot.inst = finder.source_instance_identifier

-----------------------------------------------------------------------------
(* Claims about delete_old_snapshots *)

\* how many snapshots of the list the sort puts before position i: those of
\* the same instance that are newer, or as new and earlier in the list
NewerThan(list, i) ==
    Cardinality({j \in DOMAIN list :
        /\ list[j].inst = list[i].inst
        /\ \/ SortKey(list[j]) > SortKey(list[i])
           \/ SortKey(list[j]) = SortKey(list[i]) /\ j < i})

\* the snapshots of the workspace that are not among its number_to_keep
\* newest
OldSnapshotIds(list, instance_identifier, number_to_keep) ==
    {list[i].id : i \in {j \in DOMAIN list :
        /\ list[j].inst = instance_identifier
        /\ NewerThan(list, j) >= number_to_keep}}

NoDuplicates(seq) ==
    \A i, j \in DOMAIN seq : seq[i] = seq[j] => i = j

\* C10: for every number_to_keep and every list of snapshots, a
\* delete_old_snapshots call in which no provider request failed has
\* requested the deletion, once each, of exactly the snapshots of this
\* workspace that are not among its number_to_keep newest (a snapshot
\* without creation time counting as oldest).
C10_DeletesExactlyTheOld ==
    (/\ lastOp = "delete_old_snapshots"
     /\ pc = "idle"
     /\ lastResult.err # "ClientError")
    => /\ NoDuplicates(deleteRequests)
       /\ Range(deleteRequests)
          = OldSnapshotIds(listed, ws.instance_identifier, keep)

\* C10, as far as the code goes: the same of a call that returned, and no
\* request ever names a snapshot of another instance or one of the
\* number_to_keep newest
DeleteOldSnapshotsWhenReturned ==
    /\ (lastOp = "delete_old_snapshots" /\ pc = "idle" /\ lastResult.ok)
       => /\ NoDuplicates(deleteRequests)
          /\ Range(deleteRequests)
             = OldSnapshotIds(listed, ws.instance_identifier, keep)
    /\ Range(deleteRequests)
       \subseteq OldSnapshotIds(listed, ws.instance_identifier, keep)

\* C9, as far as the code goes: the same of a call that returned
SelectsFirstNewestWhenReturned ==
    (lastOp = "get_snapshot_identifier" /\ ctor.snapshot_identifier = NoneText
     /\ ctor.source_instance_identifier # NoneId /\ lastResult.ok)
    => \E i \in DOMAIN ListedForSource :
          /\ ListedForSource[i].id = lastResult.val
          /\ FirstNewest(ListedForSource, i)

-----------------------------------------------------------------------------
(* Claims about the workspace *)

\* C2: a cleanup(create_final_snapshot=True) that issued its delete request
\* and returned normally saw, at its last poll, the final snapshot
\* 'available': when the deadline passes first the wait raises TimeoutError
\* instead of returning.
C2_FinalWaitRaisesAtDeadline ==
    (/\ lastOp = "cleanup"
     /\ pc = "idle"
     /\ lastResult.ok
     /\ lastCalls = <<DeleteRequest(TRUE)>>)
    => lastPoll = Status("available")

\* C3: when no provider request has failed (a TimeoutError is no provider
\* failure), the workspace has moved only forward: no second restore
\* request, the modify request only after a poll reported 'available', and
\* a delete request only for a workspace whose reconfiguration was applied.
C3_ForwardOnly ==
    "provider error" \notin events
    => /\ "restore again" \notin events
       /\ pc = "apply_modifications" => lastPoll = Status("available")
       /\ "modify" \in events => "restore" \in events
       /\ "delete" \in events => "applied" \in events

ProvisioningCalls == <<"restore_db_instance_from_db_snapshot",
                       "modify_db_instance">>

\* C4: a getter call that provisions issues one restore request and then one
\* modify request, and applies the modification before it returns; once a
\* getter has returned, no restore or modify request is issued and
\* self.instance is not assigned again, a later getter issues no request
\* and returns what the cached instance gives, and get_password returns the
\* password of the workspace.
C4_ProvisionsOnce ==
    /\ "provisioning after returned" \notin events
    /\ (lastOp \in Getters /\ lastCalls # <<>>)
       => /\ "restore" \in events
          /\ \E n \in 1..2 : lastCalls = SubSeq(ProvisioningCalls, 1, n)
          /\ (pc = "idle" /\ lastResult.ok)
             => /\ lastCalls = ProvisioningCalls
                /\ "applied" \in events
    /\ ("returned" \in events /\ "getter raised" \notin events)
       => {"restore", "modify", "applied"} \subseteq events
          /\ "restore again" \notin events
    /\ (lastOp \in Getters /\ pc = "idle" /\ "returned" \in events)
       => lastResult = Accessor(lastOp, ws.instance)
    /\ lastOp = "get_password"
       => lastResult = Returned(<<ws.password>>) /\ lastCalls = <<>>

\* a getter has returned, and a later getter call has returned the cached
\* instance without any request
C4_Witness ==
    /\ lastOp = "get_instance"
    /\ pc = "idle"
    /\ lastCalls = <<>>
    /\ lastResult = Returned(ws.instance)
    /\ {"restore", "modify", "applied", "returned"} \subseteq events

\* C5: no delete request follows a delete request that succeeded; a cleanup
\* call that issues a request acts on a workspace that has an instance; and
\* a cleanup call polls the provider only after it issued the delete request
\* with a final snapshot itself.
C5_CleanupOnlyOnce ==
    /\ "delete after deleted" \notin events
    /\ (lastOp = "cleanup" /\ lastCalls # <<>>)
       => /\ ws.instance # NoneInstance
          /\ \E flag \in BOOLEAN : lastCalls = <<DeleteRequest(flag)>>
    /\ (lastOp = "cleanup" /\ (polls > 0 \/ pc = "final_wait"))
       => lastCalls = <<DeleteRequest(TRUE)>> /\ ws.deleted
    /\ (lastOp = "cleanup" /\ lastCalls = <<>>)
       => /\ pc = "idle" /\ polls = 0 /\ lastResult.ok
          /\ ws.instance = NoneInstance \/ ws.deleted

\* a cleanup call on a workspace already marked deleted has returned without
\* a request
C5_Witness ==
    /\ lastOp = "cleanup"
    /\ "deleted" \in events
    /\ ws.deleted
    /\ lastCalls = <<>>

\* C6: during the wait for the final snapshot the workspace is marked
\* deleted; a cleanup call that raised after polling raised the error of its
\* last poll, which is not 'DBSnapshotNotFound', and left the workspace
\* marked deleted.
C6_OtherErrorsReraised ==
    /\ pc = "final_wait" => ws.deleted
    /\ (lastOp = "cleanup" /\ pc = "idle" /\ polls > 0 /\ ~lastResult.ok)
       => /\ lastPoll.raised
          /\ lastPoll.code # "DBSnapshotNotFound"
          /\ lastResult.err = lastPoll.type
          /\ ws.deleted

ResolverCalls ==
    {"dns.query", "describe_db_instances()",
     "describe_db_instances(DBInstanceIdentifier)",
     "describe_db_snapshots(DBInstanceIdentifier)",
     "describe_db_snapshots(DBSnapshotIdentifier)"}

\* C7: constructing the workspace triggers no resolution: the constructor
\* makes no describe-snapshots, describe-instances or DNS call.
C7_ConstructionResolvesNothing ==
    lastOp = "__init__" => Range(lastCalls) \cap ResolverCalls = {}

\* C7, amended: nothing is resolved before the workspace is constructed; the
\* constructor resolves the snapshot and the source instance, so that a
\* construction that succeeds has described the snapshot by its identifier
\* and has described instances, and the resolver holds the snapshot, its
\* identifier and the source instance; the getters make no resolution call.
C7_ConstructorResolves ==
    /\ lastOp = "None"
       => finder = FinderInit(ctor.hostname, ctor.source_instance_identifier,
                              ctor.snapshot_identifier)
    /\ (lastOp = "__init__" /\ lastResult.ok)
       => /\ "describe_db_snapshots(DBSnapshotIdentifier)"
                \in Range(lastCalls)
          /\ Range(lastCalls)
                \cap {"describe_db_instances()",
                      "describe_db_instances(DBInstanceIdentifier)"} # {}
    /\ ws.phase = "live"
       => /\ finder.snapshot_identifier # NoneText
          /\ finder.snapshot = ws.source_snapshot
          /\ finder.source_instance = ws.source_instance
          /\ ws.source_snapshot # NoneSnapshot
          /\ ws.source_instance # NoneInstance
    /\ lastOp \in Getters => Range(lastCalls) \cap ResolverCalls = {}

\* the first provisioning call of a constructed workspace has issued its
\* restore request
C7_Witness ==
    /\ lastOp \in Getters
    /\ pc = "create_wait"
    /\ lastCalls = <<"restore_db_instance_from_db_snapshot">>
    /\ "restore again" \notin events
    /\ finder.snapshot # NoneSnapshot

-----------------------------------------------------------------------------
(* Claims about the waits *)

Last(seq) == seq[Len(seq)]

\* the getter call in progress, or ended, has issued this request last
LastRequestIs(request) ==
    /\ lastOp \in Getters
    /\ lastCalls # <<>>
    /\ Last(lastCalls) = request

\* the seconds self.timeout minutes give a wait
WaitSeconds == SecondsPerMinute * ws.timeout

\* C15: in the restore wait and the reconfigure wait, the polls are 10
\* seconds apart and the deadline is the one computed when the wait began;
\* the wait goes on only while no poll has reported the awaited condition;
\* a wait that saw the condition at its K-th poll ended with success after
\* that poll, which happened no later than the deadline; and a wait that
\* raised TimeoutError never saw the condition and ended at the first check
\* after the deadline.
C15_WaitsPollUntilDeadline ==
    /\ pc = "create_wait"
       => /\ now = PollSleepSeconds * polls
          /\ max_end_time = WaitSeconds
          /\ polls > 0 => lastPoll = Status("creating")
    /\ pc = "modify_wait"
       => /\ max_end_time - now = WaitSeconds - PollSleepSeconds * polls
          /\ polls > 0 => lastPoll = Status("pending")
    /\ pc = "apply_modifications"
       => /\ polls > 0
          /\ lastPoll = Status("available")
          /\ now = PollSleepSeconds * (polls - 1)
          /\ now <= WaitSeconds
    /\ (pc = "idle" /\ LastRequestIs("modify_db_instance")
           /\ lastPoll = Status("applied"))
       => /\ polls > 0
          /\ lastResult = Accessor(lastOp, ws.instance)
          /\ PollSleepSeconds * (polls - 1) <= WaitSeconds
    /\ (pc = "idle" /\ lastOp \in Getters
           /\ lastResult = Raised("TimeoutError"))
       => /\ \/ LastRequestIs("restore_db_instance_from_db_snapshot")
                /\ lastPoll = Status("creating")
             \/ LastRequestIs("modify_db_instance")
                /\ lastPoll = Status("pending")
          /\ PollSleepSeconds * polls > WaitSeconds
          /\ PollSleepSeconds * (polls - 1) <= WaitSeconds

\* a reconfigure wait has returned after more than one poll
C15_Witness ==
    /\ pc = "idle"
    /\ LastRequestIs("modify_db_instance")
    /\ lastPoll = Status("applied")
    /\ lastResult.ok
    /\ polls > 1

\* a restore wait has ended with TimeoutError
C15_TimedOut ==
    /\ pc = "idle"
    /\ LastRequestIs("restore_db_instance_from_db_snapshot")
    /\ lastResult = Raised("TimeoutError")
    /\ ws.timeout > 0

\* C18: a getter returns only an instance whose last poll reported
\* 'available', for which the modify request has been issued and whose
\* modifications a poll has reported applied.
C18_ReturnedInstanceIsReady ==
    (lastOp \in Getters /\ pc = "idle" /\ lastResult.ok)
    => /\ ws.instance.status = "available"
       /\ {"modify", "applied"} \subseteq events

\* C20: every wait ends, whatever the provider replies: a call in its
\* restore wait leaves it, a call in its reconfigure wait leaves it and a
\* call in its final-snapshot wait leaves it, and every call that waits
\* comes to its end.
C20_WaitsTerminate ==
    /\ (pc = "create_wait") ~> (pc # "create_wait")
    /\ (pc = "modify_wait") ~> (pc # "modify_wait")
    /\ (pc = "final_wait") ~> (pc # "final_wait")
    /\ (pc # "idle") ~> (pc = "idle")

\* a final-snapshot wait that has polled 'snapshot not found' and status
\* 'creating' up to its deadline has ended
C20_Witness ==
    /\ lastOp = "cleanup"
    /\ pc = "idle"
    /\ lastCalls = <<DeleteRequest(TRUE)>>
    /\ ws.timeout > 0
    /\ now > max_end_time
    /\ polls > 1

-----------------------------------------------------------------------------
(* Claims about the task runner *)

\* the logical names of the databases the server lists
LogicalNames ==
    {normalised_name(pgDatabases[i], pg.db_suffix) : i \in DOMAIN pgDatabases}

\* the tasks that have both a routine and a database
ViableSet == scrub_functions \cap LogicalNames

\* the last call was run_task on a viable task, and it returned
ViableTaskReturned ==
    /\ lastOp = "run_task"
    /\ pg.task \in ViableSet
    /\ lastResult.ok

\* the last call connected once, to the database of its task
OpenedOwnDatabase ==
    /\ Len(pg.opened) = 1
    /\ pg.opened[1] \in Range(pgDatabases)
    /\ normalised_name(pg.opened[1], pg.db_suffix) = pg.task
    /\ pg.opened[1] = pg.db_realnames[pg.task]

\* C11: a run_task on a viable task that returned has opened one connection,
\* to the database of the task, has invoked the routine once, and then
\* either committed and returned true, the routine having completed, or
\* rolled back without any commit and returned false, the routine having
\* raised.
C11_CommitXorRollback ==
    ViableTaskReturned
    => /\ OpenedOwnDatabase
       /\ \/ /\ lastResult.val = <<TRUE>>
             /\ lastCalls = <<"connect", "cursor", "routine", "commit">>
          \/ /\ lastResult.val = <<FALSE>>
             /\ lastCalls
                = <<"connect", "cursor", "routine raised", "rollback">>

\* C11, amended: the same, with a third outcome: the routine completed, the
\* commit raised, and run_task rolled back and returned false. It returns
\* true only after a commit that did not raise.
C11_CommitRollbackOrFailedCommit ==
    ViableTaskReturned
    => /\ OpenedOwnDatabase
       /\ \/ /\ lastResult.val = <<TRUE>>
             /\ lastCalls = <<"connect", "cursor", "routine", "commit">>
          \/ /\ lastResult.val = <<FALSE>>
             /\ lastCalls
                = <<"connect", "cursor", "routine raised", "rollback">>
          \/ /\ lastResult.val = <<FALSE>>
             /\ lastCalls = <<"connect", "cursor", "routine",
                              "commit raised", "rollback">>

\* a run_task on a viable task has returned false after a commit that raised
C11_Witness ==
    /\ ViableTaskReturned
    /\ lastResult.val = <<FALSE>>
    /\ "commit raised" \in Range(lastCalls)

\* C12: run_task never propagates an error: whenever the last call was
\* run_task, it returned, and what it returned is a boolean.
C12_RunTaskNeverRaises ==
    lastOp = "run_task"
    => lastResult.ok /\ lastResult.val \in {<<TRUE>>, <<FALSE>>}

\* C13: a run_task with a name that is not a viable task has returned false
\* and has opened no connection and made no call: no cursor, routine, commit
\* or rollback.
C13_NotViableDoesNothing ==
    (lastOp = "run_task" /\ pg.task \notin ViableSet)
    => /\ lastResult = Returned(<<FALSE>>)
       /\ pg.opened = <<>>
       /\ lastCalls = <<>>

\* run_task was called with the name of a database that has no routine
C13_Witness ==
    /\ lastOp = "run_task"
    /\ pg.task \in LogicalNames \ scrub_functions
    /\ lastResult = Returned(<<FALSE>>)

\* C14: db_realnames has the logical names of the listed databases as its
\* keys, each with a database of that logical name; once computed,
\* viable_tasks is the intersection of the registry's names and the logical
\* names, and that is what get_viable_tasks has returned.
C14_ViableIsIntersection ==
    /\ pg.phase = "live"
       => /\ DOMAIN pg.db_realnames = LogicalNames
          /\ \A n \in LogicalNames :
                /\ pg.db_realnames[n] \in Range(pgDatabases)
                /\ normalised_name(pg.db_realnames[n], pg.db_suffix) = n
    /\ pg.viable_tasks.known
       => /\ pg.viable_tasks.tasks = ViableSet
          /\ pg.viable_tasks.tasks \subseteq scrub_functions
          /\ pg.viable_tasks.tasks \subseteq LogicalNames
    /\ lastOp = "get_viable_tasks"
       => /\ lastResult.ok
          /\ pg.returned = ViableSet
          /\ pg.viable_tasks.known

\* get_viable_tasks has returned one task while the server lists a database
\* without routine and the registry a routine without database
C14_Witness ==
    /\ lastOp = "get_viable_tasks"
    /\ pg.returned = {<<"publishing_api">>}
    /\ LogicalNames \ scrub_functions # {}
    /\ scrub_functions \ LogicalNames # {}

====
